---- MODULE Spec2Model ----
(***************************************************************************)
(* Model of watch.py: the PyboardSync event handler that mirrors a watched *)
(* directory onto the pyboard's drive and soft-reboots the board.          *)
(*                                                                         *)
(* Strings are sequences of one-character strings.  The source tree, the   *)
(* pyboard drive and the serial port are the environment: every file or    *)
(* serial operation may raise OSError whenever the operating system could. *)
(***************************************************************************)
EXTENDS Integers, Sequences, FiniteSets, TLC

VARIABLES
    self,        \* the PyboardSync object: path, drive, verbose, reboot, port, main_file
    pc,          \* position of the program
    events,      \* notifications of the watch facility not yet delivered
    handler,     \* the callback last entered: on_modified, on_created, on_deleted
    fn,          \* the sync function executing: upload_file or delete_file
    src_path,    \* argument of the executing call
    retries,     \* argument of the executing call
    drive_path,  \* local of the executing call
    src,         \* source tree: path -> contents (0: no such file)
    dst,         \* pyboard drive: path -> contents (0: no such file)
    dst0,        \* contents of the destination when the callback was entered
    exc,         \* exception that left the last callback ("none" if it returned)
    err,         \* the call whose OSError is being handled ("none" outside except)
    attempts,    \* entries of a try block since the callback was entered
    backoffs,    \* time.sleep(1) calls since the callback was entered
    rmOk, rmFail,       \* os.remove calls that returned / raised
    copyOk, copyFail,   \* shutil.copyfile calls that returned / raised
    serFail,     \* serial calls that raised
    reboots,     \* reboot_board calls that returned
    termNotices, \* "Maximum retries exceeded" notices issued
    termPrinted, \* ... of which reached the console
    serLog,      \* transport operations done by the current / last reboot_board call
    serOps,      \* calls made on the serial transport since the callback was entered
    conns,       \* serial connections opened since the callback was entered, still open
    faults       \* whether the environment may refuse an operation that could succeed

vars == <<self, pc, events, handler, fn, src_path, retries, drive_path, src, dst,
          dst0, exc, err, attempts, backoffs, rmOk, rmFail, copyOk, copyFail, serFail,
          reboots, termNotices, termPrinted, serLog, serOps, conns, faults>>

-----------------------------------------------------------------------------
(* Bounds of the model *)

\* number of distinct file contents
NumVersions == 1
\* longest root path of the path-mapper specification
MaxRootLen == 2
\* longest remainder of a source path below the root
MaxRelLen == 3

(* Program constants *)

\* retries=4 in on_modified / on_created / on_deleted
Retries == 4
\* serial.Serial(self.port, 115200, timeout=1)
Baud == 115200
\* "\x03": ETX, Ctrl+C
ETX == 3
\* "\x04": EOT, Ctrl+D
EOT == 4
\* time.sleep(0.1), in milliseconds
PauseMs == 100

-----------------------------------------------------------------------------
(* Strings *)

Alphabet == {"/", "\\", "a", "b"}

RECURSIVE StringsOfLen(_)
StringsOfLen(n) ==
    IF n = 0 THEN {<<>>}
    ELSE {<<c>> \o s : c \in Alphabet, s \in StringsOfLen(n - 1)}

StringsUpTo(n) == UNION {StringsOfLen(k) : k \in 0..n}

\* s.startswith(t) at offset i (1-based)
MatchesAt(s, t, i) ==
    /\ i + Len(t) - 1 <= Len(s)
    /\ \A j \in 1..Len(t) : s[i + j - 1] = t[j]

\* t in s
Contains(s, t) == \E i \in 1..(Len(s) + 1) : MatchesAt(s, t, i)

\* s.replace(old, ''): every non-overlapping occurrence, scanning left to right
RECURSIVE RemoveFrom(_, _, _)
RemoveFrom(s, old, i) ==
    IF i > Len(s) THEN <<>>
    ELSE IF Len(old) > 0 /\ MatchesAt(s, old, i)
         THEN RemoveFrom(s, old, i + Len(old))
         ELSE <<s[i]>> \o RemoveFrom(s, old, i + 1)

str_replace(s, old) == RemoveFrom(s, old, 1)

-----------------------------------------------------------------------------
(* PyboardSync.get_drive_path *)

\* real_path after line 79
real_path(obj, p) == str_replace(p, obj.path)

\* real_path[0] raises IndexError on the empty string
get_drive_path_raises(obj, p) == real_path(obj, p) = <<>>

get_drive_path(obj, p) ==
    LET rp == real_path(obj, p)
        stripped == IF rp[1] = "\\" \/ rp[1] = "/" THEN Tail(rp) ELSE rp
    IN  obj.drive \o <<":">> \o stripped

-----------------------------------------------------------------------------
(* The session of the main specification *)

\* args.path
WatchRoot == <<"/", "a">>
\* args.drive
DriveLetter == <<"V">>
\* args.main
MainFile == <<"m">>
\* args.port: missing or named
Ports == {<<>>, <<"C">>}

\* the files of the watched directory
Files == {WatchRoot \o <<"/", "m">>, WatchRoot \o <<"/", "x">>}

Contents == 0..NumVersions

Args == [path : {WatchRoot}, drive : {DriveLetter}, verbose : BOOLEAN,
         reboot : BOOLEAN, port : Ports, main_file : {MainFile}]

DrivePaths == {get_drive_path([path |-> WatchRoot, drive |-> DriveLetter], p) : p \in Files}

Event(k, p) == [kind |-> k, src_path |-> p]

\* the watched directory itself is reported as modified when an entry changes
DirModified == Event("modified", WatchRoot)

Quiet ==
    /\ events = <<>>
    /\ handler = "none"
    /\ fn = "none"
    /\ src_path = <<>>
    /\ retries = 0
    /\ drive_path = <<>>
    /\ dst0 = 0
    /\ exc = "none"
    /\ err = "none"
    /\ attempts = 0
    /\ backoffs = 0
    /\ rmOk = 0
    /\ rmFail = 0
    /\ copyOk = 0
    /\ copyFail = 0
    /\ serFail = 0
    /\ reboots = 0
    /\ termNotices = 0
    /\ termPrinted = 0
    /\ serLog = <<>>
    /\ serOps = 0
    /\ conns = 0

Init ==
    /\ self \in Args
    /\ pc = "new"
    /\ src \in [Files -> Contents]
    /\ dst \in [DrivePaths -> Contents]
    /\ faults = TRUE
    /\ Quiet

-----------------------------------------------------------------------------
(* PyboardSync.__init__ *)

\* mutant of ctor_rejects: the port check is missing
ctor_rejects_nothing(obj) == FALSE

\* if self.reboot and not self.port
ctor_rejects(obj) == obj.reboot /\ obj.port = <<>>

Construct ==
    /\ pc = "new"
    /\ pc' = IF ctor_rejects(self) THEN "ctor_failed" ELSE "idle"
    /\ UNCHANGED <<self, faults, conns, events, handler, fn, src_path, retries, drive_path, src, dst,
                   dst0, exc, err, attempts, backoffs, rmOk, rmFail, copyOk, copyFail,
                   serFail, reboots, termNotices, termPrinted, serLog, serOps>>

-----------------------------------------------------------------------------
(* The environment: the user edits the watched tree, the watch facility      *)
(* queues the notifications.                                                 *)

Notifications(e) == {<<e>>, <<e, DirModified>>, <<DirModified, e>>}

UserEdit ==
    /\ pc = "idle"
    /\ events = <<>>
    /\ \E p \in Files, c \in Contents :
          /\ c # 0 \/ src[p] # 0
          /\ src' = [src EXCEPT ![p] = c]
          /\ LET k == IF c = 0 THEN "deleted"
                      ELSE IF src[p] = 0 THEN "created" ELSE "modified"
             IN  events' \in Notifications(Event(k, p))
    /\ UNCHANGED <<self, faults, conns, pc, handler, fn, src_path, retries, drive_path, dst, dst0,
                   exc, err, attempts, backoffs, rmOk, rmFail, copyOk, copyFail, serFail,
                   reboots, termNotices, termPrinted, serLog, serOps>>

-----------------------------------------------------------------------------
(* Entering upload_file / delete_file *)

\* if self.main_file in src_path
is_main(obj, p) == Contains(p, obj.main_file)

\* mutant of first_step: the board is rebooted before the file is touched
first_step_reboot(f, obj, p) == "reboot_board"

\* first statement of the try block after drive_path is computed
first_step(f, obj, p) ==
    IF f = "upload_file" /\ ~is_main(obj, p) THEN "copyfile" ELSE "remove"

\* self.<f>(p, r)
call(f, p, r) ==
    /\ fn' = f
    /\ src_path' = p
    /\ retries' = r
    /\ drive_path' = get_drive_path(self, p)
    /\ attempts' = attempts + 1
    /\ pc' = first_step(f, self, p)

\* mutant of reboot_wanted: the board is rebooted whatever the flag says
reboot_always(obj) == TRUE

\* if self.reboot
reboot_wanted(obj) == obj.reboot

\* where the try block goes once its file operations are done
after_file_ops == IF reboot_wanted(self) THEN "reboot_board" ELSE "idle"

-----------------------------------------------------------------------------
(* on_modified, on_created, on_deleted *)

\* mutant of dispatcher_free: the callback hands the action to a worker and
\* returns, so the next notification is delivered during a backoff
dispatcher_free_in_backoff == pc \in {"idle", "except"}

\* the callbacks call upload_file / delete_file directly: the watch facility
\* gets control back only when the action has returned
dispatcher_free == pc = "idle"

callback(h, k, f) ==
    /\ dispatcher_free
    /\ events # <<>>
    /\ Head(events).kind = k
    /\ events' = Tail(events)
    /\ handler' = h
    /\ backoffs' = 0
    /\ rmOk' = 0
    /\ rmFail' = 0
    /\ copyOk' = 0
    /\ copyFail' = 0
    /\ serFail' = 0
    /\ reboots' = 0
    /\ termNotices' = 0
    /\ termPrinted' = 0
    /\ serLog' = <<>>
    /\ serOps' = 0
    /\ conns' = 0
    /\ err' = "none"
    /\ LET p == Head(events).src_path
       IN  IF get_drive_path_raises(self, p)
           THEN \* IndexError leaves the callback; what the watch facility does
                \* with it is not the program's to decide
                /\ exc' = "IndexError"
                /\ pc' \in {"idle", "stopped"}
                /\ attempts' = 0
                /\ dst0' = 0
                /\ UNCHANGED <<fn, src_path, retries, drive_path>>
           ELSE /\ exc' = "none"
                /\ dst0' = dst[get_drive_path(self, p)]
                /\ attempts' = 1
                /\ fn' = f
                /\ src_path' = p
                /\ retries' = Retries
                /\ drive_path' = get_drive_path(self, p)
                /\ pc' = first_step(f, self, p)
    /\ UNCHANGED <<self, faults, src, dst>>

on_modified == callback("on_modified", "modified", "upload_file")

on_created == callback("on_created", "created", "upload_file")

\* mutant of on_deleted: deletions are routed to upload_file
on_deleted_uploads == callback("on_deleted", "deleted", "upload_file")

on_deleted == callback("on_deleted", "deleted", "delete_file")

-----------------------------------------------------------------------------
(* The statements of the try blocks *)

\* os.remove(drive_path)
os_remove ==
    /\ pc = "remove"
    /\ \/ /\ dst[drive_path] # 0
          /\ dst' = [dst EXCEPT ![drive_path] = 0]
          /\ rmOk' = rmOk + 1
          /\ pc' = IF fn = "upload_file" THEN "copyfile" ELSE after_file_ops
          /\ UNCHANGED <<rmFail, err>>
       \/ \* FileNotFoundError when there is no such file; the drive may
          \* refuse (busy, unmounted) at any time
          /\ faults \/ dst[drive_path] = 0
          /\ rmFail' = rmFail + 1
          /\ err' = "remove"
          /\ pc' = "except"
          /\ UNCHANGED <<dst, rmOk>>
    /\ UNCHANGED <<self, faults, conns, events, handler, fn, src_path, retries, drive_path, src, dst0,
                   exc, attempts, backoffs, copyOk, copyFail, serFail, reboots,
                   termNotices, termPrinted, serLog, serOps>>

\* shutil.copyfile(src_path, drive_path)
shutil_copyfile ==
    /\ pc = "copyfile"
    /\ \/ /\ src[src_path] # 0
          /\ dst' = [dst EXCEPT ![drive_path] = src[src_path]]
          /\ copyOk' = copyOk + 1
          /\ pc' = after_file_ops
          /\ UNCHANGED <<copyFail, err>>
       \/ \* FileNotFoundError when the source is gone; the drive may refuse
          /\ faults \/ src[src_path] = 0
          /\ copyFail' = copyFail + 1
          /\ err' = "copyfile"
          /\ pc' = "except"
          /\ UNCHANGED <<dst, copyOk>>
    /\ UNCHANGED <<self, faults, conns, events, handler, fn, src_path, retries, drive_path, src, dst0,
                   exc, attempts, backoffs, rmOk, rmFail, serFail, reboots,
                   termNotices, termPrinted, serLog, serOps>>

-----------------------------------------------------------------------------
(* PyboardSync.reboot_board *)

Op(o, a) == [op |-> o, arg |-> a]

\* mutant of write_then_sleep: the pause after the write is missing
write_no_sleep(b) == <<Op("write", b)>>

\* com.write(b); time.sleep(0.1)
write_then_sleep(b) == <<Op("write", b), Op("sleep", PauseMs)>>

\* a serial call raises SerialException, an OSError
serial_raises ==
    /\ faults
    /\ serFail' = serFail + 1
    /\ err' = "serial"
    /\ pc' = "except"
    /\ UNCHANGED <<serLog, reboots>>

\* com = serial.Serial(self.port, 115200, timeout=1)
serial_open ==
    /\ pc = "reboot_board"
    /\ serOps' = serOps + 1
    /\ \/ /\ serLog' = <<Op("open", Baud)>>
          /\ conns' = conns + 1
          /\ pc' = "write_etx"
          /\ UNCHANGED <<serFail, reboots, err>>
       \/ /\ faults
          /\ serFail' = serFail + 1
          /\ conns' = conns
          /\ err' = "serial"
          /\ pc' = "except"
          /\ serLog' = <<>>
          /\ UNCHANGED reboots
    /\ UNCHANGED <<self, faults, events, handler, fn, src_path, retries, drive_path, src, dst,
                   dst0, exc, attempts, backoffs, rmOk, rmFail, copyOk, copyFail,
                   termNotices, termPrinted>>

\* com.write("\x03".encode()); time.sleep(0.1)
write_etx ==
    /\ pc = "write_etx"
    /\ serOps' = serOps + 1
    /\ \/ /\ serLog' = serLog \o write_then_sleep(ETX)
          /\ pc' = "write_eot"
          /\ UNCHANGED <<serFail, reboots, err>>
       \/ serial_raises
    /\ UNCHANGED <<self, faults, conns, events, handler, fn, src_path, retries, drive_path, src, dst,
                   dst0, exc, attempts, backoffs, rmOk, rmFail, copyOk, copyFail,
                   termNotices, termPrinted>>

\* com.write("\x04".encode()); time.sleep(0.1)
write_eot ==
    /\ pc = "write_eot"
    /\ serOps' = serOps + 1
    /\ \/ /\ serLog' = serLog \o write_then_sleep(EOT)
          /\ pc' = "close"
          /\ UNCHANGED <<serFail, reboots, err>>
       \/ serial_raises
    /\ UNCHANGED <<self, faults, conns, events, handler, fn, src_path, retries, drive_path, src, dst,
                   dst0, exc, attempts, backoffs, rmOk, rmFail, copyOk, copyFail,
                   termNotices, termPrinted>>

\* connections left open by a reboot_board that raised are closed only by the
\* interpreter's finalizer, which may or may not have run once the callback
\* has returned; n of them are open when it returns
finalized(n) == {0, n}

\* mutant of com_close: after the reboot the action starts over
com_close_again ==
    /\ pc = "close"
    /\ serOps' = serOps + 1
    /\ serLog' = Append(serLog, [op |-> "close", arg |-> 0])
    /\ reboots' = reboots + 1
    /\ conns' = conns - 1
    /\ attempts' = attempts + 1
    /\ pc' = IF fn = "upload_file" /\ ~Contains(src_path, self.main_file)
             THEN "copyfile" ELSE "remove"
    /\ UNCHANGED <<self, faults, events, handler, fn, src_path, retries, drive_path,
                   src, dst, dst0, exc, err, backoffs, rmOk, rmFail, copyOk, copyFail,
                   serFail, termNotices, termPrinted>>

\* com.close(); reboot_board and the callback return
com_close ==
    /\ pc = "close"
    /\ serOps' = serOps + 1
    /\ serLog' = Append(serLog, Op("close", 0))
    /\ reboots' = reboots + 1
    /\ conns' \in finalized(conns - 1)
    /\ pc' = "idle"
    /\ UNCHANGED <<self, faults, events, handler, fn, src_path, retries, drive_path, src, dst,
                   dst0, exc, err, attempts, backoffs, rmOk, rmFail, copyOk, copyFail,
                   serFail, termNotices, termPrinted>>

-----------------------------------------------------------------------------
(* except OSError *)

\* mutant of may_retry: one retry too many
may_retry_once_more(r) == r >= 0

\* mutant of may_retry: one retry too few
may_retry_short(r) == r > 1

\* if retries > 0
may_retry(r) == r > 0

\* mutant of next_budget: the budget is passed on undiminished
next_budget_same(r) == r

\* retries-1
next_budget(r) == r - 1

\* print_if_verbose: lines that reach the console
printed(obj, n) == IF obj.verbose THEN n ELSE 0

\* both upload_file and delete_file retry with self.upload_file
except_OSError ==
    /\ pc = "except"
    /\ err' = "none"
    /\ IF may_retry(retries)
       THEN /\ backoffs' = backoffs + 1
            /\ call("upload_file", src_path, next_budget(retries))
            /\ UNCHANGED <<termNotices, termPrinted, conns>>
       ELSE /\ termNotices' = termNotices + 1
            /\ termPrinted' = termPrinted + printed(self, 1)
            /\ conns' \in finalized(conns)
            /\ pc' = "idle"
            /\ UNCHANGED <<fn, src_path, retries, drive_path, attempts, backoffs>>
    /\ UNCHANGED <<self, faults, events, handler, src, dst, dst0, exc, rmOk, rmFail, copyOk,
                   copyFail, serFail, reboots, serLog, serOps>>

-----------------------------------------------------------------------------

Next ==
    \/ Construct
    \/ UserEdit
    \/ on_modified
    \/ on_created
    \/ on_deleted
    \/ os_remove
    \/ shutil_copyfile
    \/ serial_open
    \/ write_etx
    \/ write_eot
    \/ com_close
    \/ except_OSError

Spec == Init /\ [][Next]_vars

-----------------------------------------------------------------------------
(* One notification delivered twice to a constructed session, the source     *)
(* tree left alone and nothing refused that could succeed.  The watch        *)
(* facility reports what happened, not what is: the file a notification      *)
(* names may have been deleted or written again before the callback runs.   *)

Kinds == {"created", "modified", "deleted"}

InitTwice ==
    /\ self \in {a \in Args : ~ctor_rejects(a)}
    /\ pc = "idle"
    /\ src \in [Files -> Contents]
    /\ dst \in [DrivePaths -> Contents]
    /\ faults = FALSE
    /\ \E k \in Kinds, p \in Files :
          /\ events = <<Event(k, p), Event(k, p)>>
          /\ handler = "none"
          /\ fn = "none"
          /\ src_path = <<>>
          /\ retries = 0
          /\ drive_path = <<>>
          /\ dst0 = 0
          /\ exc = "none"
          /\ err = "none"
          /\ attempts = 0
          /\ backoffs = 0
          /\ rmOk = 0
          /\ rmFail = 0
          /\ copyOk = 0
          /\ copyFail = 0
          /\ serFail = 0
          /\ reboots = 0
          /\ termNotices = 0
          /\ termPrinted = 0
          /\ serLog = <<>>
          /\ serOps = 0
          /\ conns = 0

\* a step of the sync action in progress
HandlerStep ==
    \/ os_remove
    \/ shutil_copyfile
    \/ serial_open
    \/ write_etx
    \/ write_eot
    \/ com_close
    \/ except_OSError

NextTwice ==
    \/ on_modified
    \/ on_created
    \/ on_deleted
    \/ HandlerStep

SpecTwice == InitTwice /\ [][NextTwice]_vars

-----------------------------------------------------------------------------
(* The path mapper on its own: any root, any source path below it *)

Roots == StringsUpTo(MaxRootLen) \ {<<>>}

InitMap ==
    /\ self \in [path : Roots, drive : {DriveLetter}, verbose : {FALSE},
                 reboot : {FALSE}, port : {<<>>}, main_file : {MainFile}]
    /\ pc = "idle"
    /\ src = [p \in Files |-> 0]
    /\ dst = [d \in DrivePaths |-> 0]
    /\ faults = TRUE
    /\ Quiet

\* self.get_drive_path(self.path + rel)
map_path ==
    /\ pc = "idle"
    /\ \E rel \in StringsUpTo(MaxRelLen) :
          LET p == self.path \o rel
          IN  /\ src_path' = p
              /\ handler' = "get_drive_path"
              /\ IF get_drive_path_raises(self, p)
                 THEN /\ exc' = "IndexError"
                      /\ drive_path' = <<>>
                 ELSE /\ exc' = "none"
                      /\ drive_path' = get_drive_path(self, p)
    /\ UNCHANGED <<self, faults, conns, pc, events, fn, retries, src, dst, dst0, err, attempts,
                   backoffs, rmOk, rmFail, copyOk, copyFail, serFail, reboots,
                   termNotices, termPrinted, serLog, serOps>>

NextMap == map_path

SpecMap == InitMap /\ [][NextMap]_vars

-----------------------------------------------------------------------------
(* Properties *)

Uploads == {"on_modified", "on_created"}

\* the last callback ran a sync action and returned
Returned == pc = "idle" /\ handler # "none" /\ exc = "none" /\ attempts >= 1

\* C1: an Upload of the main file whose destination did not exist (nothing
\* else failing) copies in its first attempt, with no backoff and no
\* terminal-failure notice, and leaves the source contents at the destination.
C1_MainUploadToleratesAbsent ==
    (/\ Returned
     /\ handler \in Uploads
     /\ is_main(self, src_path)
     /\ dst0 = 0
     /\ copyFail = 0
     /\ serFail = 0
     /\ events = <<>>)
    => /\ attempts = 1
       /\ backoffs = 0
       /\ termNotices = 0
       /\ copyOk = 1
       /\ dst[drive_path] = src[src_path]

\* C2: a Deleted event whose destination does not exist returns without
\* backoff or terminal-failure notice and, with reboot enabled, after exactly
\* one reboot signal.
C2_DeleteAbsentIsSuccess ==
    (/\ Returned
     /\ handler = "on_deleted"
     /\ dst0 = 0
     /\ serFail = 0)
    => /\ backoffs = 0
       /\ termNotices = 0
       /\ (self.reboot => reboots = 1)

\* C3: a Delete whose removal fails k times (destination busy) and then
\* succeeds, k <= budget, re-attempts the removal after each failure and ends
\* with the destination removed (and one reboot if enabled); a terminal
\* failure is reported only after the removal failed budget + 1 times.
C3_DeleteRetriesRemoval ==
    (/\ Returned
     /\ handler = "on_deleted"
     /\ dst0 # 0
     /\ serFail = 0)
    => /\ termNotices = 0 =>
            /\ dst[drive_path] = 0
            /\ rmOk = 1
            /\ backoffs = rmFail
            /\ (self.reboot => reboots = 1)
       /\ termNotices # 0 => rmFail = Retries + 1

\* C4: an Upload whose copy fails k times and then succeeds (nothing else
\* failing) makes k backoffs, one successful copy and k + 1 <= budget + 1
\* attempts; every retry lowers the budget by exactly one.
C4_UploadTransientCopyFailures ==
    /\ (handler \in Uploads /\ attempts >= 1) =>
            /\ retries = Retries - backoffs
            /\ attempts = backoffs + 1
            /\ attempts <= Retries + 1
    /\ (Returned /\ handler \in Uploads /\ rmFail = 0 /\ serFail = 0 /\ copyOk >= 1) =>
            /\ copyOk = 1
            /\ backoffs = copyFail
            /\ attempts = copyFail + 1

\* the copy failed on each of the budget's retries and then succeeded
C4_Witness ==
    /\ Returned
    /\ handler \in Uploads
    /\ rmFail = 0
    /\ serFail = 0
    /\ copyFail = Retries
    /\ copyOk = 1
    /\ backoffs = Retries

\* C5: an Upload started by the dispatcher whose copy fails on every attempt
\* makes 5 attempts and 4 backoffs, issues one terminal-failure notice
\* (printed only when verbose) and returns to the dispatcher without an
\* exception and without any reboot signal.
C5_UploadExhaustion ==
    (/\ pc \in {"idle", "stopped"}
     /\ handler \in Uploads
     /\ attempts >= 1
     /\ copyFail = attempts)
    => /\ attempts = Retries + 1
       /\ backoffs = Retries
       /\ termNotices = 1
       /\ termPrinted = (IF self.verbose THEN 1 ELSE 0)
       /\ exc = "none"
       /\ pc = "idle"
       /\ reboots = 0
       /\ serOps = 0

\* the upload gave up and the next notification is waiting at the dispatcher
C5_Witness ==
    /\ pc = "idle"
    /\ handler \in Uploads
    /\ copyFail = Retries + 1
    /\ termNotices = 1
    /\ self.reboot
    /\ events # <<>>

\* the transport operations of one reboot signal, in order
RebootSequence ==
    <<Op("open", Baud), Op("write", ETX), Op("sleep", PauseMs),
      Op("write", EOT), Op("sleep", PauseMs), Op("close", 0)>>

\* C6: a reboot signal that does not fail opens the port, writes 0x03,
\* pauses, writes 0x04, pauses and closes, in this order and with nothing
\* else done on the transport.
C6_RebootSequenceInOrder ==
    /\ serLog = SubSeq(RebootSequence, 1, Len(serLog))
    /\ reboots >= 1 =>
            /\ pc = "idle"
            /\ reboots = 1
            /\ serLog = RebootSequence
    /\ (reboots = 1 /\ serFail = 0) => serOps = 4

C6_Witness == reboots = 1 /\ serFail = 0 /\ pc = "idle" /\ Len(serLog) = 6

\* the Path Mapper as specified: the leading root removed, then at most one
\* leading separator
mapped_as_specified(obj, p) ==
    LET rel == SubSeq(p, Len(obj.path) + 1, Len(p))
        rest == IF rel # <<>> /\ rel[1] \in {"/", "\\"} THEN Tail(rel) ELSE rel
    IN  obj.drive \o <<":">> \o rest

\* C7: for a source path with the root as a literal prefix, what the Path
\* Mapper returns is volume + ':' + the path with only the leading root and at
\* most one leading separator removed, also when the root occurs again later.
C7_PathMapperStripsLeadingRootOnly ==
    (handler = "get_drive_path" /\ exc = "none") =>
        drive_path = mapped_as_specified(self, src_path)

\* C8: a serial failure after the file operation succeeded is handled by the
\* enclosing Sync Action like a copy failure: with budget left the same action
\* is retried after a one-second wait with the budget lowered by one,
\* otherwise a terminal failure is reported; nothing reaches the dispatcher.
C8_SerialFailureRetriesSameAction ==
    [][(pc = "except" /\ err = "serial") =>
            IF retries > 0
            THEN /\ fn' = fn
                 /\ retries' = retries - 1
                 /\ backoffs' = backoffs + 1
                 /\ pc' = first_step(fn, self, src_path)
                 /\ exc' = "none"
            ELSE /\ termNotices' = termNotices + 1
                 /\ pc' = "idle"
                 /\ exc' = "none"]_vars

\* C9: with reboot disabled nothing is ever done on the serial transport, and
\* an Upload of a file other than the main file that meets no failure makes
\* exactly one copy and no removal.
C9_NoSerialWhenRebootDisabled ==
    /\ ~self.reboot =>
            /\ serOps = 0
            /\ serLog = <<>>
            /\ reboots = 0
            /\ pc \notin {"reboot_board", "write_etx", "write_eot", "close"}
    /\ (/\ Returned
        /\ handler \in Uploads
        /\ ~self.reboot
        /\ ~is_main(self, src_path)
        /\ rmFail + copyFail + serFail = 0)
       => /\ copyOk = 1
          /\ rmOk = 0
          /\ attempts = 1

C9_Witness ==
    /\ Returned
    /\ handler \in Uploads
    /\ ~self.reboot
    /\ ~is_main(self, src_path)
    /\ copyFail = 0
    /\ copyOk = 1
    /\ dst[drive_path] # dst0

\* C10: a Session with reboot enabled and no serial port fails at
\* construction, before any event; wherever an event is handled,
\* reboot-enabled implies a port.
C10_RebootNeedsPort ==
    /\ (self.reboot /\ self.port = <<>>) =>
            /\ pc \in {"new", "ctor_failed"}
            /\ handler = "none"
            /\ events = <<>>
            /\ attempts = 0
    /\ pc \notin {"new", "ctor_failed"} => (self.reboot => self.port # <<>>)

C10_Witness == pc = "ctor_failed" /\ self.reboot /\ self.port = <<>>

\* positions inside a sync action
Busy == {"remove", "copyfile", "reboot_board", "write_etx", "write_eot", "close", "except"}

\* positions inside reboot_board
SerialPcs == {"reboot_board", "write_etx", "write_eot", "close"}

C13_RebootOnlyAfterFileOps ==
    [][/\ (pc' = "reboot_board" /\ pc # "reboot_board") =>
              \/ pc = "copyfile" /\ copyOk' = copyOk + 1
              \/ pc = "remove" /\ fn = "delete_file" /\ rmOk' = rmOk + 1
       /\ (pc' \in {"write_etx", "write_eot", "close"} /\ pc' # pc) =>
              (pc \in SerialPcs /\ attempts' = attempts)
       /\ (serOps' # serOps /\ serOps' # 0) =>
              (pc \in SerialPcs /\ attempts' = attempts)
       /\ (pc \in {"remove", "copyfile"} /\ pc' = "except") =>
              (serOps' = serOps /\ serLog' = serLog)
       /\ pc = "except" =>
              (serOps' = serOps /\ pc' \in {"remove", "copyfile", "idle"})]_vars

\* the reboot of a second attempt, the first attempt's copy having failed
C13_Witness ==
    /\ pc = "write_etx"
    /\ attempts = 2
    /\ copyFail = 1
    /\ copyOk = 1
    /\ serFail = 0

\* C14: at most one serial connection is open at any time, only inside
\* reboot_board, and none is left open when the callback has returned.
C14_NoConnectionOutlivesReboot ==
    /\ conns <= 1
    /\ pc \notin {"write_etx", "write_eot", "close"} => conns = 0

\* C15: handling a Deleted event never copies: os.remove is the only file
\* operation it performs, also in its retries, and it leaves no file at the
\* destination that was not there before.
C15_DeleteNeverCopies ==
    handler = "on_deleted" =>
        /\ pc # "copyfile"
        /\ copyOk = 0
        /\ copyFail = 0
        /\ dst[drive_path] \in {0, dst0}

\* C16: no exception leaves on_created, on_modified or on_deleted for an
\* event whose path has the root as a prefix, the root itself included.
C16_CallbacksNeverRaise == exc = "none"

\* attempts made and position reached within the attempt
Progress ==
    attempts * 8 +
    (CASE pc = "remove" -> 1
       [] pc = "copyfile" -> 2
       [] pc = "reboot_board" -> 3
       [] pc = "write_etx" -> 4
       [] pc = "write_eot" -> 5
       [] pc = "close" -> 6
       [] pc = "except" -> 7
       [] OTHER -> 0)

\* the counters of a sync action stay within the budget, and an action that
\* has not returned can take a step
RetryBounds ==
    /\ attempts <= Retries + 1
    /\ backoffs <= Retries
    /\ retries >= 0
    /\ attempts >= 1 => (retries = Retries - backoffs /\ attempts = backoffs + 1)
    /\ termNotices >= 1 =>
          (termNotices = 1 /\ pc = "idle" /\ retries = 0 /\ backoffs = Retries)
    /\ pc \in Busy => ENABLED HandlerStep

\* a step of a sync action returns or advances it; the budget changes only by
\* one, with a backoff, in the except clause
RetryStep ==
    /\ pc' = "idle" \/ Progress' > Progress
    /\ retries' # retries => (retries' = retries - 1 /\ backoffs' = backoffs + 1)
    /\ backoffs' # backoffs => (pc = "except" /\ retries > 0)

\* C17: a sync action started with budget 4 makes at most 5 attempts and 4
\* backoffs; each retry lowers the budget by one, never below zero; the
\* terminal failure follows the last attempt without a backoff; and every
\* step of the action advances it, so it returns.
C17_BoundedRetries == []RetryBounds /\ [][(pc \in Busy) => RetryStep]_vars

\* a Deleted event's action gave up after the fifth attempt
C17_Witness ==
    /\ handler = "on_deleted"
    /\ pc = "idle"
    /\ termNotices = 1
    /\ attempts = Retries + 1
    /\ retries = 0

\* C18: one event's handling completes at most one reboot sequence; once it
\* has, the action is over; an event that ends in terminal failure has
\* completed none.
C18_AtMostOneReboot ==
    /\ reboots <= 1
    /\ reboots = 1 => (pc = "idle" /\ termNotices = 0 /\ self.reboot)
    /\ termNotices >= 1 => reboots = 0

\* a reboot completed in a retry, after an earlier reboot had failed half-way
C18_Witness == reboots = 1 /\ serFail >= 1 /\ serOps > 4 /\ pc = "idle"

\* C19: with the source tree unchanged and no transient failure, handling an
\* event a second time leaves the destination as the first handling left it.
C19_TwiceIsOnce ==
    (pc = "idle" /\ events = <<>> /\ handler # "none" /\ exc = "none") =>
        dst[drive_path] = dst0

====
